---- MODULE Spec2Model ----
(***************************************************************************)
(* Model of the collaborative canvas session of                            *)
(* src/src/components/Canvas/Canvas.tsx: the Element Store                 *)
(* (localDrawings), the pixel surface (as the list of draw calls issued    *)
(* since the last clear), the interaction state, and the three update      *)
(* channels (local persist, push notifications, polling) against the       *)
(* remote table canvas_elements.                                           *)
(*                                                                         *)
(* Conventions.  An optional field of a JS object is a sequence of length  *)
(* 0 (absent) or 1 (present).  A JS string that the code measures or trims *)
(* is the sequence of its UTF-16 code units (numbers): "ok" is             *)
(* <<111, 107>>.  Every handler is one action up to its first await; the   *)
(* table executes the request in an action of its own; the continuation    *)
(* after the await is the action that handles the answer.                  *)
(***************************************************************************)
EXTENDS Integers, Sequences, FiniteSets, TLC

\* ------------------------------------------------------------------ bounds
MaxFetch == 1       \* select requests in flight at once
MaxPath == 3        \* points buffered in one draw gesture
MaxPan == 2         \* the offset stays within MaxPan pointer distances of the default
MaxCreate == 2      \* local creations (strokes and labels) in one session
MaxPending == 1     \* insert and update requests in flight at once
MaxAbort == 1       \* render passes that end in an exception
MaxDots == 2        \* dots on the surface when a pointer-down restarts a draw gesture

\* ------------------------------------------------------- program constants
DefaultOffsetX == 500
DefaultOffsetY == 500
ClickThreshold == 5
HitMargin == 5
CharWidth == 8
TextHeight == 20
StatusIdLength == 6
StatusTextLength == 15
MountWidth == 2

Me == "alice"
Other == "bob"
MountColor == "#000000"
Red == "#ff0000"

\* --------------------------------------------------------------- options
None == <<>>
Some(v) == <<v>>
IsSome(o) == Len(o) = 1
Val(o) == o[1]

Pt(px, py) == [x |-> px, y |-> py]

\* JS truthiness of the optional payload fields
TruthyText(o) == IsSome(o) /\ Len(Val(o)) > 0
TruthyColor(o) == IsSome(o) /\ Val(o) # ""
TruthyWidth(o) == IsSome(o) /\ Val(o) # 0

\* drawing.data.color || color
ColorOr(o, c) == IF TruthyColor(o) THEN Val(o) ELSE c
WidthOr(o, w) == IF TruthyWidth(o) THEN Val(o) ELSE w

\* String.prototype.trim on a sequence of code units.  It removes from both
\* ends the WhiteSpace and LineTerminator code points of ECMAScript: tab, line
\* feed, vertical tab, form feed, carriage return, space, no-break space,
\* U+1680, U+2000 to U+200A, U+2028, U+2029, U+202F, U+205F, U+3000 and U+FEFF.
WhiteSpace ==
    (9..13) \cup {32, 160, 5760} \cup (8192..8202)
        \cup {8232, 8233, 8239, 8287, 12288, 65279}
mutTrimNone(s) == s
RECURSIVE TrimLeft(_)
TrimLeft(s) == IF s = <<>> THEN <<>>
               ELSE IF Head(s) \in WhiteSpace THEN TrimLeft(Tail(s)) ELSE s
RECURSIVE TrimRight(_)
TrimRight(s) == IF s = <<>> THEN <<>>
                ELSE IF s[Len(s)] \in WhiteSpace
                THEN TrimRight(SubSeq(s, 1, Len(s) - 1)) ELSE s
Trim(s) == TrimRight(TrimLeft(s))

Abs(n) == IF n < 0 THEN -n ELSE n

\* ------------------------------------------------------------- payloads
StrokeData(pts, c, w) ==
    [points |-> Some(pts), text |-> None, position |-> None,
     color |-> Some(c), width |-> Some(w)]
LabelData(t, pos, c) ==
    [points |-> None, text |-> Some(t), position |-> Some(pos),
     color |-> Some(c), width |-> None]
NoData == [points |-> None, text |-> None, position |-> None,
           color |-> None, width |-> None]
\* a row whose data column is null
NullData == [null |-> TRUE]
IsNull(d) == d = NullData

\* A CanvasElement of the Store
Element(i, ty, d, u, ts) ==
    [id |-> i, type |-> ty, data |-> d, userId |-> u, timestamp |-> ts]
\* A row of canvas_elements
Row(i, ty, d, u, ts) ==
    [id |-> i, type |-> ty, data |-> d, user_id |-> u, timestamp |-> ts]

\* data.map(item => ({id, type, data, userId: item.user_id, timestamp}))
ToElement(item) ==
    Element(item.id, item.type, item.data, item.user_id, item.timestamp)
RECURSIVE MapToElements(_)
MapToElements(rows) ==
    IF rows = <<>> THEN <<>>
    ELSE <<ToElement(Head(rows))>> \o MapToElements(Tail(rows))

\* Array.from(new Set(data.map(item => item.user_id))): first occurrences, in order
RECURSIVE UniqueUsers(_, _)
UniqueUsers(rows, seen) ==
    IF rows = <<>> THEN <<>>
    ELSE IF Head(rows).user_id \in seen THEN UniqueUsers(Tail(rows), seen)
    ELSE <<Head(rows).user_id>>
         \o UniqueUsers(Tail(rows), seen \cup {Head(rows).user_id})

Includes(s, v) == \E i \in 1..Len(s) : s[i] = v
\* prev.includes(u) ? prev : [...prev, u]
AddUser(prev, u) == IF Includes(prev, u) THEN prev ELSE Append(prev, u)

\* ----------------------------------------------------------- draw calls
DrawCall(o, off, pts, t, c, w) ==
    [op |-> o, off |-> off, pts |-> pts, text |-> t, color |-> c, width |-> w]
\* the test line of the canvas initialisation, drawn with no translation
TestLine(c, w) == DrawCall("stroke", Pt(0, 0), <<Pt(50, 50), Pt(100, 100)>>, <<>>, c, w)

\* drawing.data.points and drawing.data.text of an element whose data is null
\* raise a TypeError (the type test before them short-circuits for other types)
RenderThrows(d) == d.type \in {"draw", "text"} /\ IsNull(d.data)
AnyThrows(ds) == \E k \in 1..Len(ds) : RenderThrows(ds[k])

\* the draw calls of one stored element under the given closure values:
\* a polyline, a filled text, or nothing
mutElementCallsOnePoint(d, c, w, editing, activeId, off) ==
    IF IsNull(d.data) THEN <<>>
    ELSE IF d.type = "draw" /\ IsSome(d.data.points) /\ Len(Val(d.data.points)) >= 1
    THEN <<DrawCall("stroke", off, Val(d.data.points), <<>>,
                    ColorOr(d.data.color, c), WidthOr(d.data.width, w))>>
    ELSE IF d.type = "text" /\ TruthyText(d.data.text) /\ IsSome(d.data.position)
    THEN IF editing /\ Some(d.id) = activeId THEN <<>>
         ELSE <<DrawCall("text", off, <<Val(d.data.position)>>, Val(d.data.text),
                         ColorOr(d.data.color, c), 0)>>
    ELSE <<>>
ElementCalls(d, c, w, editing, activeId, off) ==
    IF IsNull(d.data) THEN <<>>
    ELSE IF d.type = "draw" /\ IsSome(d.data.points) /\ Len(Val(d.data.points)) > 1
    THEN <<DrawCall("stroke", off, Val(d.data.points), <<>>,
                    ColorOr(d.data.color, c), WidthOr(d.data.width, w))>>
    ELSE IF d.type = "text" /\ TruthyText(d.data.text) /\ IsSome(d.data.position)
    THEN IF editing /\ Some(d.id) = activeId THEN <<>>
         ELSE <<DrawCall("text", off, <<Val(d.data.position)>>, Val(d.data.text),
                         ColorOr(d.data.color, c), 0)>>
    ELSE <<>>

\* drawings.forEach(...) of a full redraw: the pass ends at the first element
\* that raises
RECURSIVE RenderStored(_, _, _, _, _, _)
RenderStored(ds, c, w, editing, activeId, off) ==
    IF ds = <<>> THEN <<>>
    ELSE IF RenderThrows(Head(ds)) THEN <<>>
    ELSE ElementCalls(Head(ds), c, w, editing, activeId, off)
         \o RenderStored(Tail(ds), c, w, editing, activeId, off)

\* the in-flight path of redrawCanvas
InFlightCalls(drawing, path, c, w, off) ==
    IF drawing /\ Len(path) > 1
    THEN <<DrawCall("stroke", off, path, <<>>, c, w)>>
    ELSE <<>>

\* the incremental draw of the push handler (closure of the mount render)
DrawSingle(d, off) == ElementCalls(d, MountColor, MountWidth, FALSE, None, off)

\* ---------------------------------------------------------- remote table
\* .order('timestamp', {ascending: true}): a stable insertion sort of the rows
RECURSIVE InsertSorted(_, _)
InsertSorted(sorted, r) ==
    IF sorted = <<>> THEN <<r>>
    ELSE IF r.timestamp < Head(sorted).timestamp THEN <<r>> \o sorted
    ELSE <<Head(sorted)>> \o InsertSorted(Tail(sorted), r)
RECURSIVE OrderByTimestamp(_)
OrderByTimestamp(rows) ==
    IF rows = <<>> THEN <<>>
    ELSE InsertSorted(OrderByTimestamp(SubSeq(rows, 1, Len(rows) - 1)), rows[Len(rows)])

HasId(rows, i) == \E k \in 1..Len(rows) : rows[k].id = i

\* .update({data}).eq('id', id)
UpdateRows(rows, i, d) ==
    [k \in 1..Len(rows) |-> IF rows[k].id = i THEN [rows[k] EXCEPT !.data = d] ELSE rows[k]]

\* ------------------------------------------------------------ the state
VARIABLES
    mode,            \* the type prop and the mode state that follows it
    color, width,    \* the tool props
    localDrawings,   \* the Element Store
    connectedUsers,  \* the active-users list
    allUsers,        \* the known-users list
    debugInfo,       \* the status string
    textPosition, textContent, editingText, activeTextId,
    isDrawing, isPanning, lastPanPoint, currentPath,
    offset,          \* offsetRef
    isInitialLoad,   \* isInitialLoadRef
    canvas,          \* the draw calls on the pixel surface since the last clear
    ctxShift,        \* the translation left on the context by passes that raised
    mounted,         \* whether the component is still mounted
    remote,          \* the rows of canvas_elements, in insertion order
    clock,           \* the last value Date.now() returned
    created,         \* local creations so far (bounds the session)
    inserts,         \* insert requests in flight (a bag of rows)
    updates,         \* update requests in flight (a bag of [id, data])
    fetchSent,       \* select requests sent and not yet served
    fetchData,       \* select answers on their way back (a bag of row lists)
    pushes,          \* INSERT notifications on their way to this session
    stored,          \* insert requests the table has executed, answer on its way
    applied,         \* update requests the table has executed, answer on its way
    usersSent,       \* selects of loadAllUsers sent and not yet served
    usersData        \* answers of these selects on their way back

uiText == <<textPosition, textContent, editingText, activeTextId>>
gesture == <<isDrawing, isPanning, lastPanPoint, currentPath>>
tool == <<mode, color, width>>
dom == <<canvas, ctxShift, mounted>>
roster == <<connectedUsers, allUsers>>
net == <<remote, inserts, updates, fetchSent, fetchData, pushes>>
answers == <<stored, applied>>
usersNet == <<usersSent, usersData>>
vars == <<tool, localDrawings, roster, debugInfo, uiText, gesture, offset,
          isInitialLoad, dom, clock, created, net, answers, usersNet>>

Status(kind, arg) == [kind |-> kind, arg |-> arg]
NoStatus == Status("", <<>>)
ErrorMessage == <<"unavailable">>

\* bags of requests in flight
BagCount(b, e) == IF e \in DOMAIN b THEN b[e] ELSE 0
BagAdd(b, e) == [x \in DOMAIN b \cup {e} |-> BagCount(b, x) + (IF x = e THEN 1 ELSE 0)]
BagRemove(b, e) ==
    [x \in {y \in DOMAIN b : y # e \/ b[y] > 1} |-> IF x = e THEN b[x] - 1 ELSE b[x]]
BagSize(b) ==
    LET RECURSIVE Sum(_)
        Sum(S) == IF S = {} THEN 0
                  ELSE LET x == CHOOSE y \in S : TRUE IN b[x] + Sum(S \ {x})
    IN Sum(DOMAIN b)
NoBag == <<>>

PersistsInFlight == BagSize(inserts) + BagSize(updates)

\* the pointer moves on a line of screen points that lie PanDelta apart
PanDelta == Pt(20, -5)
PanPoint(k) == Pt(510 + k * PanDelta.x, 510 + k * PanDelta.y)

\* screenToWorld, with the canvas at the origin of the viewport
screenToWorld(p) == Pt(p.x - offset.x, p.y - offset.y)

\* ctx.translate(offsetRef.current.x, offsetRef.current.y) on top of what the
\* context already carries
Shifted(off) == Pt(ctxShift.x + off.x, ctxShift.y + off.y)

\* a pass that raises skips its ctx.restore(); the model admits MaxAbort of them
\* (every offset is at least the default minus MaxPan pointer distances)
AbortAllowed ==
    ctxShift.x < MaxAbort * (DefaultOffsetX - MaxPan * Abs(PanDelta.x))
ShiftAfter(ds, off) == IF AnyThrows(ds) THEN Shifted(off) ELSE ctxShift

\* redrawCanvas under the closure of the latest render, at pan offset off: the
\* in-flight path is drawn only if the pass over the stored elements finished
RedrawCalls(off) ==
    RenderStored(localDrawings, color, width, editingText, activeTextId, Shifted(off))
    \o (IF AnyThrows(localDrawings) THEN <<>>
        ELSE InFlightCalls(isDrawing, currentPath, color, width, Shifted(off)))

\* the state after construction and the mount effects: the canvas holds the
\* test line, and the initial load and the first select of loadAllUsers have
\* been sent
Init ==
    /\ mode = "draw" /\ color = MountColor /\ width = MountWidth
    /\ localDrawings = <<>>
    /\ connectedUsers = <<>> /\ allUsers = <<>>
    /\ debugInfo = NoStatus
    /\ textPosition = None /\ textContent = <<>>
    /\ editingText = FALSE /\ activeTextId = None
    /\ isDrawing = FALSE /\ isPanning = FALSE
    /\ lastPanPoint = Pt(DefaultOffsetX, DefaultOffsetY)
    /\ currentPath = <<>>
    /\ offset = Pt(DefaultOffsetX, DefaultOffsetY)
    /\ isInitialLoad = TRUE
    /\ canvas = <<TestLine(MountColor, MountWidth)>>
    /\ ctxShift = Pt(0, 0) /\ mounted = TRUE
    /\ remote = <<>>
    /\ clock = 1 /\ created = 0
    /\ inserts = NoBag /\ updates = NoBag
    /\ fetchSent = 1 /\ fetchData = NoBag
    /\ pushes = {}
    /\ stored = NoBag /\ applied = NoBag
    /\ usersSent = 1 /\ usersData = NoBag

\* the mode effect runs after every render (finishTextEditing is a new function
\* on every render) and commits an edit that is open outside text mode.  It is
\* a passive effect: the handlers of user events run only after it (they carry
\* the guard ~EffectPending), while timer and network callbacks may run between
\* the render and the effect (the render after a pointer-leave is not
\* synchronous and its effects are deferred).
EffectPending == mode # "text" /\ editingText

\* ------------------------------------------------------- local mutations
\* saveDrawing / saveTextElement up to the await: the optimistic append and
\* the insert request.  The first Date.now() of the creation gives the id, the
\* second one, t, the timestamp: the first returned t or an earlier value, not
\* before the last value the clock gave.
mutSaveElementNoAppend(ty, d, t) ==
    /\ PersistsInFlight < MaxPending
    /\ created < MaxCreate
    /\ created' = created + 1
    /\ clock' = t
    /\ \E first \in clock..t :
         /\ localDrawings' = localDrawings
         /\ inserts' = BagAdd(inserts, Row(ToString(first), ty, d, Me, t))
SaveElement(ty, d, t) ==
    /\ PersistsInFlight < MaxPending
    /\ created < MaxCreate
    /\ created' = created + 1
    /\ clock' = t
    /\ \E first \in clock..t :
         /\ localDrawings' = Append(localDrawings, Element(ToString(first), ty, d, Me, t))
         /\ inserts' = BagAdd(inserts, Row(ToString(first), ty, d, Me, t))

\* updateTextElement up to the await: the optimistic map and the update request
mutUpdateTextElementReplacesData(id, text, position) ==
    /\ PersistsInFlight < MaxPending
    /\ localDrawings' =
         [k \in 1..Len(localDrawings) |->
            IF localDrawings[k].id = id
            THEN [localDrawings[k] EXCEPT !.data = LabelData(text, position, color)]
            ELSE localDrawings[k]]
    /\ updates' = BagAdd(updates, [id |-> id, data |-> LabelData(text, position, color)])
UpdateTextElement(id, text, position) ==
    /\ PersistsInFlight < MaxPending
    /\ localDrawings' =
         [k \in 1..Len(localDrawings) |->
            IF localDrawings[k].id = id
            THEN [localDrawings[k] EXCEPT
                    !.data = [(IF IsNull(@) THEN NoData ELSE @) EXCEPT
                                !.text = Some(text), !.position = Some(position)]]
            ELSE localDrawings[k]]
    /\ updates' = BagAdd(updates, [id |-> id, data |-> LabelData(text, position, color)])

ClearOverlay ==
    /\ editingText' = FALSE
    /\ textPosition' = None
    /\ textContent' = <<>>
    /\ activeTextId' = None

\* if (activeTextId): null and the empty string are falsy
TruthyId(o) == IsSome(o) /\ Val(o) # ""

\* finishTextEditing
FinishTextEditing(t) ==
    /\ IF ~IsSome(textPosition) \/ Trim(textContent) = <<>>
       THEN UNCHANGED <<localDrawings, inserts, updates, created, clock>>
       ELSE IF TruthyId(activeTextId)
       THEN /\ UpdateTextElement(Val(activeTextId), Trim(textContent), Val(textPosition))
            /\ UNCHANGED <<inserts, created, clock>>
       ELSE /\ SaveElement("text", LabelData(Trim(textContent), Val(textPosition), color), t)
            /\ UNCHANGED updates
    /\ ClearOverlay

\* The model admits MaxPending persists in flight and MaxCreate creations.  The
\* mode effect is not an input: a user event that makes it pending (a mode
\* switch during an edit, a click that opens the edit of a label in pan mode)
\* is admitted only while the commit of that edit has room within these bounds.
CommitRoom(position, content, id) ==
    IF ~IsSome(position) \/ Trim(content) = <<>> THEN TRUE
    ELSE IF TruthyId(id) THEN PersistsInFlight < MaxPending
    ELSE PersistsInFlight < MaxPending /\ created < MaxCreate

\* the label that checkTextElementClick matches: the last one whose box holds
\* point.  The scan runs from the end of the Store and raises at a text element
\* whose data is null, which ends the handler with no match.
HitThrows(e) == e.type = "text" /\ IsNull(e.data)
HitBox(e, point) ==
    /\ e.type = "text" /\ ~IsNull(e.data)
    /\ IsSome(e.data.position) /\ TruthyText(e.data.text)
    /\ point.x >= Val(e.data.position).x - HitMargin
    /\ point.x <= Val(e.data.position).x + Len(Val(e.data.text)) * CharWidth + HitMargin
    /\ point.y >= Val(e.data.position).y - TextHeight - HitMargin
    /\ point.y <= Val(e.data.position).y + HitMargin
mutHitIndexFirst(point) ==
    LET hits == {i \in 1..Len(localDrawings) : HitBox(localDrawings[i], point)}
    IN IF hits = {} THEN 0 ELSE CHOOSE i \in hits : \A j \in hits : i <= j
HitIndex(point) ==
    LET stops == {i \in 1..Len(localDrawings) :
                    HitBox(localDrawings[i], point) \/ HitThrows(localDrawings[i])}
        last == CHOOSE i \in stops : \A j \in stops : j <= i
    IN IF stops = {} THEN 0
       ELSE IF HitThrows(localDrawings[last]) THEN 0 ELSE last

\* String.prototype.slice(0, n)
Slice(str, n) == IF Len(str) <= n THEN str ELSE SubSeq(str, 1, n)

\* checkTextElementClick
mutCheckClickAnchorAtPoint(point) ==
    IF editingText \/ HitIndex(point) = 0
    THEN UNCHANGED <<uiText, debugInfo>>
    ELSE LET e == localDrawings[HitIndex(point)] IN
         /\ textPosition' = Some(point)
         /\ textContent' = Val(e.data.text)
         /\ editingText' = TRUE
         /\ activeTextId' = Some(e.id)
         /\ debugInfo' = Status("Editing text", <<Slice(e.id, StatusIdLength)>>)
CheckTextElementClick(point) ==
    IF editingText \/ HitIndex(point) = 0
    THEN UNCHANGED <<uiText, debugInfo>>
    ELSE LET e == localDrawings[HitIndex(point)] IN
         /\ textPosition' = e.data.position
         /\ textContent' = Val(e.data.text)
         /\ editingText' = TRUE
         /\ activeTextId' = Some(e.id)
         /\ debugInfo' = Status("Editing text", <<Slice(e.id, StatusIdLength)>>)
\* ---------------------------------------------------------- user events
\* the dots on the surface
IsDot(call) == call.op = "dot"
\* startDrawing: pointer-down on the canvas at screen point p.  A pointer-down
\* during a draw gesture (of another button) starts the buffer again; the model
\* admits it while the surface shows fewer than MaxDots dots.
MouseDown(p, t) ==
    /\ mounted /\ ~EffectPending
    /\ IF editingText
       THEN /\ FinishTextEditing(t)
            /\ UNCHANGED <<tool, roster, debugInfo, gesture, offset, isInitialLoad,
                           dom, remote, fetchSent, fetchData, pushes>>
       ELSE IF mode = "pan"
       THEN /\ isPanning' = TRUE
            /\ lastPanPoint' = p
            /\ UNCHANGED <<tool, localDrawings, roster, debugInfo, uiText, isDrawing,
                           currentPath, offset, isInitialLoad, dom, clock, created, net>>
       ELSE IF mode = "text"
       THEN /\ textPosition' = Some(screenToWorld(p))
            /\ textContent' = <<>>
            /\ editingText' = TRUE
            /\ activeTextId' = None
            /\ debugInfo' = Status("Adding text", <<>>)
            /\ UNCHANGED <<tool, localDrawings, roster, gesture, offset, isInitialLoad,
                           dom, clock, created, net>>
       ELSE /\ isDrawing => Len(SelectSeq(canvas, IsDot)) < MaxDots
            /\ isDrawing' = TRUE
            /\ currentPath' = <<screenToWorld(p)>>
            /\ canvas' = Append(canvas, DrawCall("dot", Shifted(offset),
                                                 <<screenToWorld(p)>>, <<>>, color, width))
            /\ UNCHANGED <<tool, localDrawings, roster, debugInfo, uiText, isPanning,
                           lastPanPoint, offset, isInitialLoad, ctxShift, mounted,
                           clock, created, net>>
    /\ UNCHANGED <<answers, usersNet>>

\* draw: pointer-move to screen point p
mutMouseMoveDropsPoint(p) ==
    /\ mounted /\ ~EffectPending
    /\ isDrawing /\ mode = "draw"
    /\ Len(currentPath) < MaxPath
    /\ canvas' = Append(canvas,
                        DrawCall("stroke", Shifted(offset),
                                 <<currentPath[Len(currentPath)], screenToWorld(p)>>,
                                 <<>>, color, width))
    /\ currentPath' = <<screenToWorld(p)>>
    /\ UNCHANGED <<tool, localDrawings, roster, debugInfo, uiText, isDrawing,
                   isPanning, lastPanPoint, offset, isInitialLoad, ctxShift, mounted,
                   clock, created, net>>
    /\ UNCHANGED <<answers, usersNet>>
mutMouseMoveKeepsReference(p) ==
    /\ mounted /\ ~EffectPending
    /\ isPanning /\ mode = "pan"
    /\ LET off == Pt(offset.x + (p.x - lastPanPoint.x),
                     offset.y + (p.y - lastPanPoint.y)) IN
         /\ Abs(off.x - DefaultOffsetX) <= MaxPan * Abs(PanDelta.x)
         /\ Abs(off.y - DefaultOffsetY) <= MaxPan * Abs(PanDelta.y)
         /\ AnyThrows(localDrawings) => AbortAllowed
         /\ offset' = off
         /\ canvas' = RedrawCalls(off)
         /\ ctxShift' = ShiftAfter(localDrawings, off)
         /\ UNCHANGED <<tool, localDrawings, roster, debugInfo, uiText, gesture,
                        isInitialLoad, mounted, clock, created, net>>
    /\ UNCHANGED <<answers, usersNet>>
MouseMove(p) ==
    /\ mounted /\ ~EffectPending
    /\ IF isPanning /\ mode = "pan"
       THEN LET off == Pt(offset.x + (p.x - lastPanPoint.x),
                          offset.y + (p.y - lastPanPoint.y)) IN
            /\ Abs(off.x - DefaultOffsetX) <= MaxPan * Abs(PanDelta.x)
            /\ Abs(off.y - DefaultOffsetY) <= MaxPan * Abs(PanDelta.y)
            /\ AnyThrows(localDrawings) => AbortAllowed
            /\ offset' = off
            /\ lastPanPoint' = p
            /\ canvas' = RedrawCalls(off)
            /\ ctxShift' = ShiftAfter(localDrawings, off)
            /\ UNCHANGED <<tool, localDrawings, roster, debugInfo, uiText, isDrawing,
                           isPanning, currentPath, isInitialLoad, mounted, clock,
                           created, net>>
       ELSE IF ~isDrawing \/ mode # "draw"
       THEN UNCHANGED vars
       ELSE /\ Len(currentPath) < MaxPath
            /\ canvas' = IF Len(currentPath) > 0
                         THEN Append(canvas,
                                DrawCall("stroke", Shifted(offset),
                                         <<currentPath[Len(currentPath)], screenToWorld(p)>>,
                                         <<>>, color, width))
                         ELSE canvas
            /\ currentPath' = Append(currentPath, screenToWorld(p))
            /\ UNCHANGED <<tool, localDrawings, roster, debugInfo, uiText, isDrawing,
                           isPanning, lastPanPoint, offset, isInitialLoad, ctxShift,
                           mounted, clock, created, net>>
    /\ UNCHANGED <<answers, usersNet>>

\* stopDrawing: pointer-up or pointer-leave at screen point p
MouseUp(p, t) ==
    /\ mounted /\ ~EffectPending
    /\ IF isPanning /\ mode = "pan"
       THEN /\ isPanning' = FALSE
            /\ IF /\ Abs(p.x - lastPanPoint.x) < ClickThreshold
                  /\ Abs(p.y - lastPanPoint.y) < ClickThreshold
               THEN /\ CheckTextElementClick(screenToWorld(p))
                    /\ CommitRoom(textPosition', textContent', activeTextId')
               ELSE UNCHANGED <<uiText, debugInfo>>
            /\ UNCHANGED <<tool, localDrawings, roster, isDrawing, lastPanPoint,
                           currentPath, offset, isInitialLoad, dom, clock, created, net>>
       ELSE IF ~isDrawing
       THEN UNCHANGED vars
       ELSE /\ isDrawing' = FALSE
            /\ IF Len(currentPath) > 0
               THEN /\ SaveElement("draw", StrokeData(currentPath, color, width), t)
                    /\ currentPath' = <<>>
               ELSE UNCHANGED <<localDrawings, inserts, created, clock, currentPath>>
            /\ UNCHANGED <<tool, roster, debugInfo, uiText, isPanning, lastPanPoint,
                           offset, isInitialLoad, dom, remote, updates,
                           fetchSent, fetchData, pushes>>
    /\ UNCHANGED <<answers, usersNet>>

\* resetView
ResetView ==
    /\ mounted /\ ~EffectPending
    /\ AnyThrows(localDrawings) => AbortAllowed
    /\ offset' = Pt(DefaultOffsetX, DefaultOffsetY)
    /\ canvas' = RedrawCalls(Pt(DefaultOffsetX, DefaultOffsetY))
    /\ ctxShift' = ShiftAfter(localDrawings, Pt(DefaultOffsetX, DefaultOffsetY))
    /\ UNCHANGED <<tool, localDrawings, roster, debugInfo, uiText, gesture,
                   isInitialLoad, mounted, clock, created, net>>
    /\ UNCHANGED <<answers, usersNet>>

\* the toolbar switches the mode to m
SetType(m) ==
    /\ mounted /\ ~EffectPending
    /\ m # mode
    /\ (editingText /\ m # "text") => CommitRoom(textPosition, textContent, activeTextId)
    /\ mode' = m
    /\ UNCHANGED <<color, width, localDrawings, roster, debugInfo, uiText, gesture,
                   offset, isInitialLoad, dom, clock, created, net>>
    /\ UNCHANGED <<answers, usersNet>>

\* the mode effect, when an edit is open outside text mode
ModeEffect(t) ==
    /\ mounted /\ EffectPending
    /\ FinishTextEditing(t)
    /\ UNCHANGED <<tool, roster, debugInfo, gesture, offset, isInitialLoad, dom,
                   remote, fetchSent, fetchData, pushes>>
    /\ UNCHANGED <<answers, usersNet>>

\* the toolbar changes the color: the canvas initialisation runs again, which
\* resizes the canvas (that clears it and resets the context) and draws the
\* test line
SetColor(c) ==
    /\ mounted /\ ~EffectPending
    /\ c # color
    /\ color' = c
    /\ canvas' = <<TestLine(c, width)>>
    /\ ctxShift' = Pt(0, 0)
    /\ UNCHANGED <<mode, width, localDrawings, roster, debugInfo, uiText, gesture,
                   offset, isInitialLoad, mounted, clock, created, net>>
    /\ UNCHANGED <<answers, usersNet>>

\* the toolbar changes the stroke width
SetWidth(w) ==
    /\ mounted /\ ~EffectPending
    /\ w # width
    /\ width' = w
    /\ canvas' = <<TestLine(color, w)>>
    /\ ctxShift' = Pt(0, 0)
    /\ UNCHANGED <<mode, color, localDrawings, roster, debugInfo, uiText, gesture,
                   offset, isInitialLoad, mounted, clock, created, net>>
    /\ UNCHANGED <<answers, usersNet>>

\* onChange of the overlay's textarea
TypeText(t) ==
    /\ mounted /\ ~EffectPending
    /\ editingText /\ IsSome(textPosition)
    /\ t # textContent
    /\ textContent' = t
    /\ UNCHANGED <<tool, localDrawings, roster, debugInfo, textPosition, editingText,
                   activeTextId, gesture, offset, isInitialLoad, dom, clock, created, net>>
    /\ UNCHANGED <<answers, usersNet>>

\* Enter without shift in the textarea, or its loss of focus
CommitText(t) ==
    /\ mounted /\ ~EffectPending
    /\ editingText /\ IsSome(textPosition)
    /\ FinishTextEditing(t)
    /\ UNCHANGED <<tool, roster, debugInfo, gesture, offset, isInitialLoad, dom,
                   remote, fetchSent, fetchData, pushes>>
    /\ UNCHANGED <<answers, usersNet>>

\* handleKeyDown with key Escape
mutEscapeKeepsContent ==
    /\ mounted /\ ~EffectPending
    /\ IF editingText
       THEN /\ editingText' = FALSE /\ textPosition' = None /\ activeTextId' = None
            /\ UNCHANGED textContent
       ELSE UNCHANGED uiText
    /\ UNCHANGED <<tool, localDrawings, roster, debugInfo, gesture, offset,
                   isInitialLoad, dom, clock, created, net>>
    /\ UNCHANGED <<answers, usersNet>>
Escape ==
    /\ mounted /\ ~EffectPending
    /\ IF editingText THEN ClearOverlay ELSE UNCHANGED uiText
    /\ UNCHANGED <<tool, localDrawings, roster, debugInfo, gesture, offset,
                   isInitialLoad, dom, clock, created, net>>
    /\ UNCHANGED <<answers, usersNet>>

\* ------------------------------------------------------- load and polling
FetchesInFlight == fetchSent + BagSize(fetchData)

\* setInterval(() => loadDrawingsFromDatabase(), 30000): a poll is sent
PollTick ==
    /\ mounted
    /\ FetchesInFlight < MaxFetch
    /\ fetchSent' = fetchSent + 1
    /\ UNCHANGED <<tool, localDrawings, roster, debugInfo, uiText, gesture, offset,
                   isInitialLoad, dom, clock, created, remote, inserts, updates, fetchData,
                   pushes>>
    /\ UNCHANGED <<answers, usersNet>>

\* the remote store serves a select: all rows, ordered by timestamp ascending
ServeSelect ==
    /\ fetchSent > 0
    /\ fetchSent' = fetchSent - 1
    /\ fetchData' = BagAdd(fetchData, OrderByTimestamp(remote))
    /\ UNCHANGED <<tool, localDrawings, roster, debugInfo, uiText, gesture, offset,
                   isInitialLoad, dom, clock, created, remote, inserts, updates, pushes>>
    /\ UNCHANGED <<answers, usersNet>>

\* the Store after a successful load
RECURSIVE Reverse(_)
Reverse(q) == IF q = <<>> THEN <<>> ELSE Append(Reverse(Tail(q)), Head(q))
mutLoadedStoreReversed(rows) == Reverse(MapToElements(rows))
mutLoadedStoreKeep(rows) == localDrawings
mutLoadedStoreAppends(rows) == localDrawings \o MapToElements(rows)
LoadedStore(rows) == MapToElements(rows)

\* the redraw inside loadDrawingsFromDatabase: the closure of the mount render
\* (editingText false, no active id, the mount color and width), no in-flight path
mutLoadRedrawKeep(drawings) ==
    canvas \o RenderStored(drawings, MountColor, MountWidth, FALSE, None, Shifted(offset))
LoadRedraw(drawings) ==
    RenderStored(drawings, MountColor, MountWidth, FALSE, None, Shifted(offset))

\* loadDrawingsFromDatabase after the await, with data and no error; an
\* exception of the redraw is caught and logged, after the state updates.
\* After the unmount the state setters do nothing and canvasRef is null: only
\* isInitialLoadRef is written.
LoadOk(rows) ==
    /\ BagCount(fetchData, rows) > 0
    /\ fetchData' = BagRemove(fetchData, rows)
    /\ isInitialLoad' = FALSE
    /\ IF mounted
       THEN /\ allUsers' = UniqueUsers(rows, {})
            /\ localDrawings' = LoadedStore(rows)
            /\ debugInfo' = IF isInitialLoad
                            THEN Status("Loaded", <<ToString(Len(rows)),
                                                   ToString(Len(UniqueUsers(rows, {})))>>)
                            ELSE debugInfo
            /\ AnyThrows(LoadedStore(rows)) => AbortAllowed
            /\ canvas' = LoadRedraw(LoadedStore(rows))
            /\ ctxShift' = ShiftAfter(LoadedStore(rows), offset)
       ELSE UNCHANGED <<allUsers, localDrawings, debugInfo, canvas, ctxShift>>
    /\ UNCHANGED <<tool, connectedUsers, uiText, gesture, offset, mounted, clock,
                   created, remote, inserts, updates, fetchSent, pushes, answers,
                   usersNet>>

\* a select in flight ends without data: sent and lost, or served and lost
DropFetch ==
    \/ /\ fetchSent > 0
       /\ fetchSent' = fetchSent - 1
       /\ UNCHANGED fetchData
    \/ \E rows \in DOMAIN fetchData :
          /\ fetchData' = BagRemove(fetchData, rows)
          /\ UNCHANGED fetchSent

\* loadDrawingsFromDatabase after the await, with an error result: console only
mutLoadErrorClears ==
    /\ DropFetch
    /\ localDrawings' = <<>>
    /\ UNCHANGED <<tool, roster, debugInfo, uiText, gesture, offset,
                   isInitialLoad, dom, clock, created, remote, inserts, updates, pushes,
                   answers, usersNet>>
LoadError ==
    /\ DropFetch
    /\ UNCHANGED <<tool, localDrawings, roster, debugInfo, uiText, gesture, offset,
                   isInitialLoad, dom, clock, created, remote, inserts, updates, pushes,
                   answers, usersNet>>

\* loadDrawingsFromDatabase, the catch block: console only
LoadThrow ==
    /\ DropFetch
    /\ UNCHANGED <<tool, localDrawings, roster, debugInfo, uiText, gesture, offset,
                   isInitialLoad, dom, clock, created, remote, inserts, updates, pushes,
                   answers, usersNet>>

\* ---------------------------------------------------------- loadAllUsers
UsersInFlight == usersSent + BagSize(usersData)

\* setInterval(() => loadAllUsers(), 60000): the select of the user ids is sent
UsersTick ==
    /\ mounted
    /\ UsersInFlight < MaxFetch
    /\ usersSent' = usersSent + 1
    /\ UNCHANGED <<tool, localDrawings, roster, debugInfo, uiText, gesture, offset,
                   isInitialLoad, dom, clock, created, net, answers, usersData>>

\* select('user_id'): the user_id column of every row
UserIdColumn(rows) == [k \in 1..Len(rows) |-> [user_id |-> rows[k].user_id]]

\* the remote store serves the select of loadAllUsers
ServeUsers ==
    /\ usersSent > 0
    /\ usersSent' = usersSent - 1
    /\ usersData' = BagAdd(usersData, UserIdColumn(remote))
    /\ UNCHANGED <<tool, localDrawings, roster, debugInfo, uiText, gesture, offset,
                   isInitialLoad, dom, clock, created, net, answers>>

\* loadAllUsers after the await, with data and no error: setAllUsers(uniqueUsers)
UsersOk(rows) ==
    /\ BagCount(usersData, rows) > 0
    /\ usersData' = BagRemove(usersData, rows)
    /\ allUsers' = IF mounted THEN UniqueUsers(rows, {}) ELSE allUsers
    /\ UNCHANGED <<tool, localDrawings, connectedUsers, debugInfo, uiText, gesture,
                   offset, isInitialLoad, dom, clock, created, net, answers, usersSent>>

\* the select of loadAllUsers ends without data: sent and lost, or served and lost
DropUsers ==
    \/ /\ usersSent > 0
       /\ usersSent' = usersSent - 1
       /\ UNCHANGED usersData
    \/ \E rows \in DOMAIN usersData :
          /\ usersData' = BagRemove(usersData, rows)
          /\ UNCHANGED usersSent

\* loadAllUsers after the await, with an error result: console only
UsersError ==
    /\ DropUsers
    /\ UNCHANGED <<tool, localDrawings, roster, debugInfo, uiText, gesture, offset,
                   isInitialLoad, dom, clock, created, net, answers>>

\* loadAllUsers, the catch block: console only
UsersThrow ==
    /\ DropUsers
    /\ UNCHANGED <<tool, localDrawings, roster, debugInfo, uiText, gesture, offset,
                   isInitialLoad, dom, clock, created, net, answers>>

\* ------------------------------------------------------------- persists
\* text.substring(0, 15) followed by '...' if the text is longer
Shorten(text) ==
    IF Len(text) > StatusTextLength
    THEN SubSeq(text, 1, StatusTextLength) \o <<46, 46, 46>>
    ELSE text
\* the status after a successful insert
SavedStatus(r) ==
    IF r.type = "draw" THEN Status("Drawing saved", <<>>)
    ELSE Status("Text added", Shorten(Val(r.data.text)))
\* the status after an insert that returned an error
SaveErrorStatus(r) ==
    IF r.type = "draw" THEN Status("Save error", ErrorMessage)
    ELSE Status("Save text error", ErrorMessage)

\* the table executes an insert request: it stores the row (keyed by id) and
\* emits its notification; the answer is on its way to the continuation
InsertStore(r) ==
    /\ BagCount(inserts, r) > BagCount(stored, r)
    /\ ~HasId(remote, r.id)
    /\ stored' = BagAdd(stored, r)
    /\ remote' = Append(remote, r)
    /\ pushes' = pushes \cup {r}
    /\ UNCHANGED <<tool, localDrawings, roster, debugInfo, uiText, gesture, offset,
                   isInitialLoad, dom, clock, created, inserts, updates, fetchSent,
                   fetchData, applied, usersNet>>

\* the continuation of the insert, with no error (after the unmount
\* setDebugInfo does nothing)
InsertOk(r) ==
    /\ BagCount(stored, r) > 0
    /\ stored' = BagRemove(stored, r)
    /\ inserts' = BagRemove(inserts, r)
    /\ debugInfo' = IF mounted THEN SavedStatus(r) ELSE debugInfo
    /\ UNCHANGED <<tool, localDrawings, roster, uiText, gesture, offset,
                   isInitialLoad, dom, clock, created, remote, updates, fetchSent,
                   fetchData, pushes, applied, usersNet>>

\* the insert returns an error result: the table has not stored the row
InsertError(r) ==
    /\ BagCount(inserts, r) > BagCount(stored, r)
    /\ inserts' = BagRemove(inserts, r)
    /\ debugInfo' = IF mounted THEN SaveErrorStatus(r) ELSE debugInfo
    /\ UNCHANGED <<tool, localDrawings, roster, uiText, gesture, offset,
                   isInitialLoad, dom, clock, created, remote, updates, fetchSent,
                   fetchData, pushes, answers, usersNet>>

\* the insert throws: the catch block logs to the console only
InsertThrow(r) ==
    /\ BagCount(inserts, r) > BagCount(stored, r)
    /\ inserts' = BagRemove(inserts, r)
    /\ UNCHANGED <<tool, localDrawings, roster, debugInfo, uiText, gesture, offset,
                   isInitialLoad, dom, clock, created, remote, updates, fetchSent,
                   fetchData, pushes, answers, usersNet>>

\* the table executes an update request; the answer is on its way
UpdateApply(u) ==
    /\ BagCount(updates, u) > BagCount(applied, u)
    /\ applied' = BagAdd(applied, u)
    /\ remote' = UpdateRows(remote, u.id, u.data)
    /\ UNCHANGED <<tool, localDrawings, roster, debugInfo, uiText, gesture, offset,
                   isInitialLoad, dom, clock, created, inserts, updates, fetchSent,
                   fetchData, pushes, stored, usersNet>>

\* the continuation of the update, with no error
UpdateOk(u) ==
    /\ BagCount(applied, u) > 0
    /\ applied' = BagRemove(applied, u)
    /\ updates' = BagRemove(updates, u)
    /\ debugInfo' = IF mounted
                    THEN Status("Text updated", Shorten(Val(u.data.text)))
                    ELSE debugInfo
    /\ UNCHANGED <<tool, localDrawings, roster, uiText, gesture, offset,
                   isInitialLoad, dom, clock, created, remote, inserts, fetchSent,
                   fetchData, pushes, stored, usersNet>>

\* the update returns an error result: the table has not applied it
UpdateError(u) ==
    /\ BagCount(updates, u) > BagCount(applied, u)
    /\ updates' = BagRemove(updates, u)
    /\ debugInfo' = IF mounted THEN Status("Update text error", ErrorMessage)
                    ELSE debugInfo
    /\ UNCHANGED <<tool, localDrawings, roster, uiText, gesture, offset,
                   isInitialLoad, dom, clock, created, remote, inserts, fetchSent,
                   fetchData, pushes, answers, usersNet>>

\* the update throws: the catch block logs to the console only
UpdateThrow(u) ==
    /\ BagCount(updates, u) > BagCount(applied, u)
    /\ updates' = BagRemove(updates, u)
    /\ UNCHANGED <<tool, localDrawings, roster, debugInfo, uiText, gesture, offset,
                   isInitialLoad, dom, clock, created, remote, inserts, fetchSent,
                   fetchData, pushes, answers, usersNet>>

\* ----------------------------------------------------------------- push
\* the Store after the push handler's updater
mutPushedStoreFront(d) == <<d>> \o localDrawings
PushedStore(d) == Append(localDrawings, d)

\* whether the push handler processes the notification
mutPushAcceptedAll(r) == TRUE
PushAccepted(r) == r.user_id # Me

\* the postgres_changes INSERT callback, for the notification of row r.  The
\* incremental draw runs inside the state updater: if it raises, the render of
\* the component fails and, with no error boundary in the component, React
\* unmounts it (the surface is gone, timers and subscription are cleaned up).
PushDeliver(r) ==
    /\ mounted
    /\ r \in pushes
    /\ pushes' = pushes \ {r}
    /\ IF PushAccepted(r) /\ RenderThrows(ToElement(r))
       THEN /\ mounted' = FALSE
            /\ canvas' = <<>>
            /\ UNCHANGED <<localDrawings, ctxShift, roster>>
       ELSE IF PushAccepted(r)
       THEN /\ localDrawings' = PushedStore(ToElement(r))
            /\ canvas' = canvas \o DrawSingle(ToElement(r), Shifted(offset))
            /\ connectedUsers' = AddUser(connectedUsers, r.user_id)
            /\ allUsers' = AddUser(allUsers, r.user_id)
            /\ UNCHANGED <<ctxShift, mounted>>
       ELSE UNCHANGED <<localDrawings, dom, roster>>
    /\ UNCHANGED <<tool, debugInfo, uiText, gesture, offset, isInitialLoad, clock, created,
                   remote, inserts, updates, fetchSent, fetchData>>
    /\ UNCHANGED <<answers, usersNet>>

\* a notification never reaches this session
PushLost(r) ==
    /\ r \in pushes
    /\ pushes' = pushes \ {r}
    /\ UNCHANGED <<tool, localDrawings, roster, debugInfo, uiText, gesture, offset,
                   isInitialLoad, dom, clock, created, remote, inserts, updates, fetchSent,
                   fetchData>>
    /\ UNCHANGED <<answers, usersNet>>

\* another session inserts row r into the table
RemoteInsert(r) ==
    /\ ~HasId(remote, r.id)
    /\ remote' = Append(remote, r)
    /\ pushes' = pushes \cup {r}
    /\ UNCHANGED <<tool, localDrawings, roster, debugInfo, uiText, gesture, offset,
                   isInitialLoad, dom, clock, created, inserts, updates, fetchSent,
                   fetchData>>
    /\ UNCHANGED <<answers, usersNet>>

\* ------------------------------------------------------- specifications
\* rows other sessions insert: a two-point stroke, and a label of one blank
RowB1 == Row("b1", "draw", StrokeData(<<Pt(0, 0), Pt(10, 10)>>, Red, 3), Other, 1)
RowBlank == Row("b0", "text", LabelData(<<32>>, Pt(10, 10), Red), Other, 0)

\* the values the next Date.now() may return: the same millisecond or a later one
Now == {clock, clock + 1}

\* the screen point of the pointer events: world (10, 10) under the default offset
Clicks == {Pt(510, 510)}
\* what the user types into the overlay: a line feed and an ideographic space,
\* and "ok" between a tab and a blank
Texts == {<<10, 12288>>, <<9, 111, 107, 32>>}
Modes == {"draw", "text", "pan"}

\* The synchronisation of strokes: one-click draw gestures, the persist of the
\* stroke, another session's insert, push notifications and polling.
Next ==
    \/ \E p \in Clicks, t \in Now : MouseDown(p, t)
    \/ \E p \in Clicks, t \in Now : MouseUp(p, t)
    \/ PollTick
    \/ ServeSelect
    \/ \E rows \in DOMAIN fetchData : LoadOk(rows)
    \/ LoadError
    \/ LoadThrow
    \/ \E r \in DOMAIN inserts : InsertStore(r)
    \/ \E r \in DOMAIN inserts : InsertOk(r)
    \/ \E r \in DOMAIN inserts : InsertError(r)
    \/ \E r \in DOMAIN inserts : InsertThrow(r)
    \/ \E r \in pushes : PushDeliver(r)
    \/ \E r \in pushes : PushLost(r)
    \/ \E r \in {RowB1} : RemoteInsert(r)

Spec == Init /\ [][Next]_vars

\* Panning: the user pans with the pointer on the points of PanPoints, resets
\* the view, switches modes, draws one-click strokes and places labels at the
\* first of these points, while another session's stroke arrives by push or
\* poll.
PanPoints == {PanPoint(k) : k \in 0..1}
NextPan ==
    \/ \E t \in Now : MouseDown(PanPoint(0), t)
    \/ \E p \in PanPoints : mode = "pan" /\ MouseMove(p)
    \/ \E t \in Now : MouseUp(PanPoint(0), t)
    \/ ResetView
    \/ \E m \in Modes : SetType(m)
    \/ \E t \in Now : ModeEffect(t)
    \/ \E t \in Now : CommitText(t)
    \/ PollTick
    \/ ServeSelect
    \/ \E rows \in DOMAIN fetchData : LoadOk(rows)
    \/ \E r \in pushes : PushDeliver(r)
    \/ \E r \in {RowB1} : RemoteInsert(r)

SpecPan == Init /\ [][NextPan]_vars

\* Hit-testing: other sessions insert two labels whose boxes overlap, in either
\* order, and the pushes append them to the Store; the user clicks in pan mode
\* on points at, inside, on the edge of and outside the boxes.
RowLabelA == Row("a", "text", LabelData(<<97, 98>>, Pt(10, 10), Red), Other, 1)
RowLabelB == Row("1700000000002", "text", LabelData(<<99>>, Pt(20, 10), Red), Other, 2)
HitWorldPoints ==
    {Pt(10, 10), Pt(20, 10), Pt(31, 10), Pt(32, 10), Pt(34, 10), Pt(4, 10),
     Pt(5, 10), Pt(10, 16), Pt(10, 15), Pt(10, -15), Pt(10, -16)}
HitClicks == {Pt(w.x + DefaultOffsetX, w.y + DefaultOffsetY) : w \in HitWorldPoints}
NextHit ==
    \/ \E r \in {RowLabelA, RowLabelB} : RemoteInsert(r)
    \/ \E r \in pushes : PushDeliver(r)
    \/ ServeSelect
    \/ \E rows \in DOMAIN fetchData : LoadOk(rows)
    \/ SetType("pan")
    \/ \E p \in HitClicks, t \in Now : mode = "pan" /\ MouseDown(p, t)
    \/ \E p \in HitClicks, t \in Now : mode = "pan" /\ MouseUp(p, t)
    \/ \E t \in Now : ModeEffect(t)
    \/ \E u \in DOMAIN updates : UpdateApply(u)
    \/ \E u \in DOMAIN updates : UpdateOk(u)

SpecHit == Init /\ [][NextHit]_vars

\* Appends: the user creates strokes and labels and edits labels, persists are
\* answered, and another session's stroke is pushed, while the initial select
\* stays unanswered (no load replaces the Store).
NextAppend ==
    \/ \E p \in Clicks, t \in Now : MouseDown(p, t)
    \/ \E p \in Clicks, t \in Now : MouseUp(p, t)
    \/ \E m \in Modes : SetType(m)
    \/ \E t \in Now : ModeEffect(t)
    \/ \E t \in Texts : TypeText(t)
    \/ \E t \in Now : CommitText(t)
    \/ \E r \in DOMAIN inserts : InsertStore(r)
    \/ \E r \in DOMAIN inserts : InsertOk(r)
    \/ \E r \in DOMAIN inserts : InsertError(r)
    \/ \E u \in DOMAIN updates : UpdateApply(u)
    \/ \E u \in DOMAIN updates : UpdateOk(u)
    \/ \E r \in pushes : PushDeliver(r)
    \/ \E r \in {RowB1} : RemoteInsert(r)

SpecAppend == Init /\ [][NextAppend]_vars

\* Rendering: other sessions insert a two-point stroke and a one-point stroke,
\* which reach the Store by push or by poll, while the user pans and resets the
\* view.
RowDot == Row("b2", "draw", StrokeData(<<Pt(5, 5)>>, Red, 3), Other, 2)
NextRender ==
    \/ \E r \in {RowB1, RowDot} : RemoteInsert(r)
    \/ \E r \in pushes : PushDeliver(r)
    \/ PollTick
    \/ ServeSelect
    \/ \E rows \in DOMAIN fetchData : LoadOk(rows)
    \/ SetType("pan")
    \/ \E p \in PanPoints, t \in Now : mode = "pan" /\ MouseDown(p, t)
    \/ \E p \in PanPoints : mode = "pan" /\ MouseMove(p)
    \/ \E p \in PanPoints, t \in Now : mode = "pan" /\ MouseUp(p, t)
    \/ ResetView

SpecRender == Init /\ [][NextRender]_vars

\* Drawing: gestures in draw mode with the pointer on the points of PanPoints,
\* and the answers to the inserts of their strokes.
NextDraw ==
    \/ \E p \in PanPoints, t \in Now : MouseDown(p, t)
    \/ \E p \in PanPoints : MouseMove(p)
    \/ \E p \in PanPoints, t \in Now : MouseUp(p, t)
    \/ \E r \in DOMAIN inserts : InsertStore(r)
    \/ \E r \in DOMAIN inserts : InsertOk(r)
    \/ \E r \in DOMAIN inserts : InsertError(r)

SpecDraw == Init /\ [][NextDraw]_vars

\* Clicks and drags on a label: another session's label reaches the Store by
\* push or by the initial load; in pan mode the user presses the pointer at the
\* first point of PanPoints, moves it and releases it at any of them.
NextClick ==
    \/ RemoteInsert(RowLabelA)
    \/ \E r \in pushes : PushDeliver(r)
    \/ ServeSelect
    \/ \E rows \in DOMAIN fetchData : LoadOk(rows)
    \/ SetType("pan")
    \/ \E t \in Now : mode = "pan" /\ MouseDown(PanPoint(0), t)
    \/ \E p \in PanPoints : mode = "pan" /\ MouseMove(p)
    \/ \E p \in PanPoints, t \in Now : mode = "pan" /\ MouseUp(p, t)
    \/ \E t \in Now : ModeEffect(t)
    \/ \E u \in DOMAIN updates : UpdateApply(u)
    \/ \E u \in DOMAIN updates : UpdateOk(u)

SpecClick == Init /\ [][NextClick]_vars

\* Tool settings: the user changes the color and the width and pans, while
\* another session's strokes, one with and one without a color and a width of
\* its own, are pushed.
RowPlain ==
    Row("b3", "draw",
        [points |-> Some(<<Pt(0, 0), Pt(10, 10)>>), text |-> None, position |-> None,
         color |-> None, width |-> None], Other, 3)
Colors == {MountColor, Red}
Widths == {MountWidth, MountWidth + 3}
NextTool ==
    \/ \E r \in {RowB1, RowPlain} : RemoteInsert(r)
    \/ \E r \in pushes : PushDeliver(r)
    \/ \E c \in Colors : SetColor(c)
    \/ \E w \in Widths : SetWidth(w)
    \/ SetType("pan")
    \/ \E p \in PanPoints, t \in Now : mode = "pan" /\ MouseDown(p, t)
    \/ \E p \in PanPoints : mode = "pan" /\ MouseMove(p)
    \/ \E p \in PanPoints, t \in Now : mode = "pan" /\ MouseUp(p, t)
    \/ ResetView

SpecTool == Init /\ [][NextTool]_vars

\* Redraws during a gesture: the user draws with the pointer on the points of
\* PanPoints, from and to the first of them, and resets the view, while polls
\* are sent and answered (the inserts of the strokes stay unanswered).
NextGesture ==
    \/ \E t \in Now : MouseDown(PanPoint(0), t)
    \/ \E p \in PanPoints : MouseMove(p)
    \/ \E t \in Now : MouseUp(PanPoint(0), t)
    \/ ResetView
    \/ PollTick
    \/ ServeSelect
    \/ \E rows \in DOMAIN fetchData : LoadOk(rows)

SpecGesture == Init /\ [][NextGesture]_vars

\* Malformed records: other sessions insert a stroke, a record whose data is
\* null, a text record without a text, and a label, with timestamps in this
\* order; they reach the Store by push or by poll, and the user resets the
\* view.
RowNull == Row("n", "draw", NullData, Other, 2)
RowNoText ==
    Row("m", "text",
        [points |-> None, text |-> None, position |-> Some(Pt(5, 5)),
         color |-> Some(Red), width |-> None], Other, 2)
RowTail == Row("z", "text", LabelData(<<122>>, Pt(0, 0), Red), Other, 3)
NextMalformed ==
    \/ \E r \in {RowB1, RowNull, RowNoText, RowTail} : RemoteInsert(r)
    \/ \E r \in pushes : PushDeliver(r)
    \/ PollTick
    \/ ServeSelect
    \/ \E rows \in DOMAIN fetchData : LoadOk(rows)
    \/ ResetView

SpecMalformed == Init /\ [][NextMalformed]_vars

\* The roster: other sessions insert a stroke and a blank label; the selects
\* of loadDrawingsFromDatabase and of loadAllUsers, and the pushes, fill the
\* known-users list.
NextUsers ==
    \/ \E r \in {RowB1, RowBlank} : RemoteInsert(r)
    \/ \E r \in pushes : PushDeliver(r)
    \/ PollTick
    \/ ServeSelect
    \/ \E rows \in DOMAIN fetchData : LoadOk(rows)
    \/ UsersTick
    \/ ServeUsers
    \/ \E rows \in DOMAIN usersData : UsersOk(rows)
    \/ UsersError
    \/ UsersThrow

SpecUsers == Init /\ [][NextUsers]_vars

\* Labels: the session starts on a table that holds another session's blank
\* label; the user switches modes, places, types, commits and cancels labels
\* and clicks on them in pan mode, while persists and polls succeed or fail.
InitLabel ==
    /\ mode = "draw" /\ color = MountColor /\ width = MountWidth
    /\ localDrawings = <<>>
    /\ connectedUsers = <<>> /\ allUsers = <<>>
    /\ debugInfo = NoStatus
    /\ textPosition = None /\ textContent = <<>>
    /\ editingText = FALSE /\ activeTextId = None
    /\ isDrawing = FALSE /\ isPanning = FALSE
    /\ lastPanPoint = Pt(DefaultOffsetX, DefaultOffsetY)
    /\ currentPath = <<>>
    /\ offset = Pt(DefaultOffsetX, DefaultOffsetY)
    /\ isInitialLoad = TRUE
    /\ canvas = <<TestLine(MountColor, MountWidth)>>
    /\ ctxShift = Pt(0, 0) /\ mounted = TRUE
    /\ remote = <<RowBlank>>
    /\ clock = 1 /\ created = 0
    /\ inserts = NoBag /\ updates = NoBag
    /\ fetchSent = 1 /\ fetchData = NoBag
    /\ pushes = {}
    /\ stored = NoBag /\ applied = NoBag
    /\ usersSent = 1 /\ usersData = NoBag

NextLabel ==
    \/ \E p \in Clicks, t \in Now : MouseDown(p, t)
    \/ \E p \in Clicks, t \in Now : MouseUp(p, t)
    \/ \E m \in Modes : SetType(m)
    \/ \E t \in Now : ModeEffect(t)
    \/ \E t \in Texts : TypeText(t)
    \/ \E t \in Now : CommitText(t)
    \/ Escape
    \/ PollTick
    \/ ServeSelect
    \/ \E rows \in DOMAIN fetchData : LoadOk(rows)
    \/ LoadError
    \/ LoadThrow
    \/ \E r \in DOMAIN inserts : InsertStore(r)
    \/ \E r \in DOMAIN inserts : InsertOk(r)
    \/ \E r \in DOMAIN inserts : InsertError(r)
    \/ \E r \in DOMAIN inserts : InsertThrow(r)
    \/ \E u \in DOMAIN updates : UpdateApply(u)
    \/ \E u \in DOMAIN updates : UpdateOk(u)
    \/ \E u \in DOMAIN updates : UpdateError(u)
    \/ \E u \in DOMAIN updates : UpdateThrow(u)

SpecLabel == InitLabel /\ [][NextLabel]_vars

\* the state after construction on a table that already holds the rows of table
InitOn(table) ==
    /\ mode = "draw" /\ color = MountColor /\ width = MountWidth
    /\ localDrawings = <<>>
    /\ connectedUsers = <<>> /\ allUsers = <<>>
    /\ debugInfo = NoStatus
    /\ textPosition = None /\ textContent = <<>>
    /\ editingText = FALSE /\ activeTextId = None
    /\ isDrawing = FALSE /\ isPanning = FALSE
    /\ lastPanPoint = Pt(DefaultOffsetX, DefaultOffsetY)
    /\ currentPath = <<>>
    /\ offset = Pt(DefaultOffsetX, DefaultOffsetY)
    /\ isInitialLoad = TRUE
    /\ canvas = <<TestLine(MountColor, MountWidth)>>
    /\ ctxShift = Pt(0, 0) /\ mounted = TRUE
    /\ remote = table
    /\ clock = 1 /\ created = 0
    /\ inserts = NoBag /\ updates = NoBag
    /\ fetchSent = 1 /\ fetchData = NoBag
    /\ pushes = {}
    /\ stored = NoBag /\ applied = NoBag
    /\ usersSent = 1 /\ usersData = NoBag

\* Polling of a quiet table: the table holds, in any insertion order, some of a
\* blank label (timestamp 0) and two strokes of equal timestamp 1; it does not
\* change, and the user creates and edits nothing (the toolbar is used and the
\* view reset), while polls are sent and succeed or fail.
RowTie == Row("b2", "draw", StrokeData(<<Pt(5, 5), Pt(6, 6)>>, Red, 3), Other, 1)
PollRows == {RowB1, RowBlank, RowTie}
PollTables ==
    {q \in UNION {[1..n -> PollRows] : n \in 0..Cardinality(PollRows)} :
        \A i, j \in 1..Len(q) : i # j => q[i] # q[j]}
InitPoll == \E table \in PollTables : InitOn(table)
NextPoll ==
    \/ PollTick
    \/ ServeSelect
    \/ \E rows \in DOMAIN fetchData : LoadOk(rows)
    \/ LoadError
    \/ LoadThrow
    \/ \E m \in Modes : SetType(m)
    \/ ResetView

SpecPoll == InitPoll /\ [][NextPoll]_vars

\* Commits: the table holds another session's label " a" (a blank before the
\* letter) and a label whose id is the empty string; the session loads them,
\* the user clicks them in pan mode, places labels in text mode and types "ok"
\* between a tab and a blank, switches modes and commits, and the persists
\* succeed.
RowPadded == Row("b3", "text", LabelData(<<32, 97>>, Pt(10, 10), Red), Other, 0)
RowNoId == Row("", "text", LabelData(<<98>>, Pt(10, 60), Red), Other, 0)
CommitClicks == {Pt(510, 510), Pt(510, 560)}
TypedText == <<9, 111, 107, 32>>
InitCommit == InitOn(<<RowPadded, RowNoId>>)
NextCommit ==
    \/ ServeSelect
    \/ \E rows \in DOMAIN fetchData : LoadOk(rows)
    \/ \E m \in Modes : SetType(m)
    \/ \E p \in CommitClicks, t \in Now : mode # "draw" /\ MouseDown(p, t)
    \/ \E p \in CommitClicks, t \in Now : mode # "draw" /\ MouseUp(p, t)
    \/ \E t \in Now : ModeEffect(t)
    \/ TypeText(TypedText)
    \/ \E t \in Now : CommitText(t)
    \/ \E r \in DOMAIN inserts : InsertStore(r)
    \/ \E r \in DOMAIN inserts : InsertOk(r)
    \/ \E u \in DOMAIN updates : UpdateApply(u)
    \/ \E u \in DOMAIN updates : UpdateOk(u)

SpecCommit == InitCommit /\ [][NextCommit]_vars

\* --------------------------------------------------------------- claims
Ids(ds) == {ds[k].id : k \in 1..Len(ds)}
IsPrefix(a, b) == Len(a) <= Len(b) /\ SubSeq(b, 1, Len(a)) = a
\* the Store that mirrors the remote table
RemoteImage == MapToElements(OrderByTimestamp(remote))

\* C1: in every reachable state no two elements of the Element Store share an
\* id.  Refuted: two creations within one clock value get the same id, and the
\* push handler appends an element that a poll has already loaded.
C1_UniqueIds ==
    \A i, j \in 1..Len(localDrawings) :
        i # j => localDrawings[i].id # localDrawings[j].id

\* C2: a successful load or poll replaces the Store by exactly the fetched rows,
\* in the fetched (ascending timestamp) order, drops every element that is not
\* in the answer, and leaves on the surface the full redraw of the new Store.
C2_LoadReplacesWholesale ==
    [][\A rows \in DOMAIN fetchData :
         LoadOk(rows) =>
           /\ Len(localDrawings') = Len(rows)
           /\ \A k \in 1..Len(rows) :
                /\ localDrawings'[k].id = rows[k].id
                /\ localDrawings'[k].type = rows[k].type
                /\ localDrawings'[k].data = rows[k].data
                /\ localDrawings'[k].userId = rows[k].user_id
                /\ localDrawings'[k].timestamp = rows[k].timestamp
           /\ \A k \in 1..(Len(rows) - 1) :
                localDrawings'[k].timestamp <= localDrawings'[k + 1].timestamp
           /\ \A e \in Ids(localDrawings) :
                (~HasId(rows, e)) => e \notin Ids(localDrawings')
           /\ canvas' = RenderStored(localDrawings', color, width, FALSE, None, offset)
      ]_vars
\* a poll has dropped the optimistic stroke and left only the other session's
\* stroke, drawn once
C2_Witness ==
    /\ ~isInitialLoad
    /\ created = 1
    /\ Len(localDrawings) = 1 /\ localDrawings[1].id = "b1"
    /\ Len(canvas) = 1 /\ canvas[1].pts = Val(RowB1.data.points)

\* C3: a push notification of another author appends exactly that element at
\* the end of the Store and adds exactly one draw call to the surface, without
\* clearing it.
C3_PushAppendsAndDrawsOnce ==
    [][\A r \in pushes :
         (PushDeliver(r) /\ r.user_id # Me) =>
           /\ Len(localDrawings') = Len(localDrawings) + 1
           /\ IsPrefix(localDrawings, localDrawings')
           /\ localDrawings'[Len(localDrawings')] = ToElement(r)
           /\ Len(canvas') = Len(canvas) + 1
           /\ IsPrefix(canvas, canvas')
           /\ canvas'[Len(canvas')].op = "stroke"
           /\ canvas'[Len(canvas')].pts = Val(r.data.points)
           /\ canvas'[Len(canvas')].off = offset
      ]_vars
\* the other session's stroke was pushed onto a Store that held a local stroke
C3_Witness ==
    /\ Len(localDrawings) = 2
    /\ localDrawings[1].userId = Me
    /\ localDrawings[2] = ToElement(RowB1)
    /\ connectedUsers = <<Other>>
    /\ canvas[Len(canvas)].pts = Val(RowB1.data.points)

\* C4: a push notification whose author is the local participant changes
\* neither the Store, nor the surface, nor the two user lists.
C4_OwnPushIgnored ==
    [][\A r \in pushes :
         (PushDeliver(r) /\ r.user_id = Me) =>
           UNCHANGED <<localDrawings, canvas, allUsers, connectedUsers>>
      ]_vars
\* the notification of the session's own saved stroke has left the channel and
\* the Store still holds that stroke once
C4_Witness ==
    /\ \E k \in 1..Len(remote) : remote[k].user_id = Me /\ remote[k] \notin pushes
    /\ Len(localDrawings) = 1
    /\ localDrawings[1].userId = Me
    /\ debugInfo.kind = "Drawing saved"
    /\ connectedUsers = <<>>

\* C5: a local creation puts the element into the Store in the step that
\* submits its insert; a failed insert (error result or exception) leaves the
\* Store as it is; and only a successful load removes an element.
C5_OptimisticNoRollback ==
    [][/\ \A r \in DOMAIN inserts' :
            BagCount(inserts', r) > BagCount(inserts, r) =>
              /\ Len(localDrawings') = Len(localDrawings) + 1
              /\ localDrawings'[Len(localDrawings')] = ToElement(r)
       /\ \A r \in DOMAIN inserts :
            (InsertError(r) \/ InsertThrow(r)) => localDrawings' = localDrawings
       /\ (\E e \in Ids(localDrawings) : e \notin Ids(localDrawings')) =>
            \E rows \in DOMAIN fetchData : LoadOk(rows)
      ]_vars
\* the insert of a label failed with an error result and the label is still in
\* the Store, though not in the remote table
C5_Witness ==
    /\ debugInfo.kind = "Save text error"
    /\ inserts = NoBag
    /\ \E k \in 1..Len(localDrawings) :
          /\ localDrawings[k].type = "text"
          /\ localDrawings[k].userId = Me
          /\ ~HasId(remote, localDrawings[k].id)

\* C6: if from some point on the remote table no longer changes and the local
\* participant creates and edits nothing, and polls are answered successfully
\* again and again, then from some point on the Store mirrors the remote table
\* (same elements, same payloads, same order) for ever.
QuietStep == remote' = remote /\ created' = created /\ updates' = updates
PollSucceeds == \E rows \in DOMAIN fetchData : LoadOk(rows)
C6_EventuallyConsistent ==
    (<>[][QuietStep]_vars /\ []<><<PollSucceeds>>_vars)
        => <>[](localDrawings = RemoteImage)
\* the Store mirrors a table that holds the other session's stroke, whose
\* notification was lost, after a local insert failed and its stroke was dropped
C6_Witness ==
    /\ ~isInitialLoad
    /\ localDrawings = RemoteImage
    /\ localDrawings = <<ToElement(RowB1)>>
    /\ connectedUsers = <<>> /\ pushes = {}
    /\ created = 1 /\ inserts = NoBag

\* C7: while the remote table does not change and the local participant
\* creates and edits nothing, every successful poll reconciliation after the
\* first successful one leaves the Store as the one before left it: the same
\* elements with the same payloads in the same order.
C7_PollIdempotent ==
    [][((\E rows \in DOMAIN fetchData : LoadOk(rows)) /\ ~isInitialLoad)
         => localDrawings' = localDrawings
      ]_vars
\* on a table whose insertion order is the stroke b2, the stroke b1 of the same
\* timestamp and the older blank label, a reconciliation has been applied, and
\* after a mode switch the answer of the next poll has arrived
C7_Witness ==
    /\ remote = <<RowTie, RowB1, RowBlank>>
    /\ ~isInitialLoad
    /\ localDrawings = <<ToElement(RowBlank), ToElement(RowTie), ToElement(RowB1)>>
    /\ mode = "pan"
    /\ BagSize(fetchData) = 1

\* C8: a failed load or poll leaves the Store unchanged and frees its slot, and
\* whenever a slot is free the poll timer sends the next select, whatever
\* failed before.
C8_FailedLoadKeepsStoreAndLoop ==
    /\ [][(LoadError \/ LoadThrow) =>
            /\ localDrawings' = localDrawings
            /\ FetchesInFlight' = FetchesInFlight - 1]_vars
    /\ [](FetchesInFlight < MaxFetch => ENABLED PollTick)
\* the initial load has failed (no select is in flight and none ever succeeded)
\* while the Store holds a local stroke
C8_Witness ==
    /\ isInitialLoad
    /\ FetchesInFlight = 0
    /\ Len(localDrawings) = 1
    /\ localDrawings[1].userId = Me

\* C9: every failure of a load, a poll, an insert or an update, whether it is
\* an error result or an exception, leaves an error message in the status
\* string.  Refuted: a failed load or poll, and a persist that throws, are
\* logged to the console only and leave the status string as it was.
IsErrorStatus(st) ==
    st.kind \in {"Save error", "Save text error", "Update text error"}
FailureStep ==
    \/ LoadError
    \/ LoadThrow
    \/ \E r \in DOMAIN inserts : InsertError(r) \/ InsertThrow(r)
    \/ \E u \in DOMAIN updates : UpdateError(u) \/ UpdateThrow(u)
C9_FailuresSurfaced == [][FailureStep => IsErrorStatus(debugInfo')]_vars

\* C10: a commit (Enter or blur, a pointer-down during the edit, or the mode
\* effect) of an edit whose trimmed text is empty changes neither the Store nor
\* the remote table, submits no insert and no update, clears the overlay state
\* and leaves EditingText without starting a gesture.
AllBlank(s) == \A i \in 1..Len(s) : s[i] \in WhiteSpace
CommitStep ==
    \/ \E t \in Now : CommitText(t)
    \/ \E t \in Now : ModeEffect(t)
    \/ \E p \in Clicks, t \in Now : MouseDown(p, t)
C10_EmptyCommitIsNoOp ==
    [][(CommitStep /\ editingText /\ AllBlank(textContent)) =>
         /\ UNCHANGED <<localDrawings, remote, inserts, updates, isDrawing, isPanning>>
         /\ editingText' = FALSE
         /\ textPosition' = None
         /\ textContent' = <<>>
         /\ activeTextId' = None
      ]_vars
\* the edit of the existing blank label was opened by a click and closed again
\* with no update submitted
C10_Witness ==
    /\ debugInfo.kind = "Editing text"
    /\ ~editingText
    /\ created = 0
    /\ updates = NoBag
    /\ remote = <<RowBlank>>
    /\ localDrawings = <<ToElement(RowBlank)>>
\* C11: Escape during an edit changes neither the Store nor the remote table,
\* submits no insert and no update, draws nothing, clears the overlay state
\* (position, content, active id) and leaves EditingText without starting a
\* gesture; Escape outside an edit changes nothing.
C11_EscapeDiscards ==
    [][Escape =>
         /\ UNCHANGED <<localDrawings, remote, inserts, updates, canvas,
                        isDrawing, isPanning, debugInfo>>
         /\ editingText =>
              /\ editingText' = FALSE
              /\ textPosition' = None
              /\ textContent' = <<>>
              /\ activeTextId' = None
         /\ ~editingText => UNCHANGED vars
      ]_vars
\* a new label was placed and typed, and the edit was left with nothing created
C11_Witness ==
    /\ mode = "text"
    /\ debugInfo.kind = "Adding text"
    /\ ~editingText /\ textPosition = None /\ textContent = <<>>
    /\ created = 0 /\ inserts = NoBag
\* C12: a commit of an edit whose trimmed text is not empty either, with an
\* active id set, sets the text and position of the labels of that id to the
\* trimmed text and the anchor, keeps every other element and the Store size and
\* submits one update and no insert; or, with no active id, appends exactly one
\* label of the local participant with the trimmed text at the anchor and
\* submits its insert.  In both cases the overlay state is cleared and no
\* gesture starts.  Refuted: finishTextEditing tests the active id for
\* truthiness, so the commit of the edit of a label whose id is the empty
\* string appends a second label and submits an insert.
CommitStepOn ==
    \/ \E t \in Now : CommitText(t)
    \/ \E t \in Now : ModeEffect(t)
    \/ \E p \in CommitClicks, t \in Now : mode # "draw" /\ MouseDown(p, t)
PanMoveStep(p) == isPanning /\ mode = "pan" /\ MouseMove(p)
C13_PanAdditiveAndResettable ==
    [][/\ \A p \in PanPoints :
            PanMoveStep(p) =>
              /\ offset'.x - p.x = offset.x - lastPanPoint.x
              /\ offset'.y - p.y = offset.y - lastPanPoint.y
              /\ lastPanPoint' = p
       /\ \A t \in Now :
            (mode = "pan" /\ MouseDown(PanPoint(0), t)) =>
              (isPanning' => lastPanPoint' = PanPoint(0)) /\ offset' = offset
       /\ ResetView => offset' = Pt(DefaultOffsetX, DefaultOffsetY)
       /\ offset' # offset => (ResetView \/ \E p \in PanPoints : PanMoveStep(p))
      ]_vars
\* two pans by (20, -5) have been applied since the default
C13_Witness ==
    /\ offset = Pt(DefaultOffsetX + 40, DefaultOffsetY - 10)
    /\ lastPanPoint = PanPoint(1)
    /\ isPanning /\ mode = "pan"
\* C14: a click in pan mode (outside an edit) at the anchor of a label of the
\* Store opens an edit; a click farther from a label's anchor than the margin
\* plus the box size (8 per character wide, 20 high, margin 5) never matches
\* that label; and the label matched is the last one in the Store among those
\* whose box (from the anchor: margin to the left and below, width plus margin
\* to the right, height plus margin above) holds the click.  A label is a text
\* element with a position and a non-empty text.
IsLabel(e) == e.type = "text" /\ IsSome(e.data.position) /\ TruthyText(e.data.text)
ClaimedBox(e, w) ==
    /\ Val(e.data.position).x - 5 <= w.x
    /\ w.x <= Val(e.data.position).x + Len(Val(e.data.text)) * 8 + 5
    /\ Val(e.data.position).y - 20 - 5 <= w.y
    /\ w.y <= Val(e.data.position).y + 5
FarFrom(e, w) ==
    \/ Abs(w.x - Val(e.data.position).x) > 5 + Len(Val(e.data.text)) * 8
    \/ Abs(w.y - Val(e.data.position).y) > 5 + 20
ClickStep(p) ==
    /\ isPanning /\ mode = "pan" /\ ~editingText
    /\ Abs(p.x - lastPanPoint.x) < 5 /\ Abs(p.y - lastPanPoint.y) < 5
    /\ \E t \in Now : MouseUp(p, t)
C14_HitTesting ==
    [][\A p \in HitClicks :
         ClickStep(p) =>
           LET w == Pt(p.x - offset.x, p.y - offset.y)
               labels == {k \in 1..Len(localDrawings) : IsLabel(localDrawings[k])}
               inside == {k \in labels : ClaimedBox(localDrawings[k], w)}
           IN /\ \A k \in labels :
                   Val(localDrawings[k].data.position) = w => editingText'
              /\ \A k \in labels :
                   FarFrom(localDrawings[k], w) =>
                     activeTextId' # Some(localDrawings[k].id)
              /\ inside # {} =>
                   \E k \in inside :
                      /\ \A j \in inside : j <= k
                      /\ editingText'
                      /\ activeTextId' = Some(localDrawings[k].id)
                      /\ textContent' = Val(localDrawings[k].data.text)
              /\ inside = {} => ~editingText'
      ]_vars
\* the click at the anchor of label b, which lies in the box of label a too,
\* has matched label a, the one appended last
C14_Witness ==
    /\ localDrawings = <<ToElement(RowLabelB), ToElement(RowLabelA)>>
    /\ lastPanPoint = Pt(520, 510)
    /\ editingText /\ activeTextId = Some("a")
\* C15: with no load in between, every append (a local creation of a stroke or
\* a label, or the push of another author's element) puts its element at the
\* end of the Store and keeps the elements before it in their order, no other
\* step changes the order or the size, and the size of the Store is the number
\* of appends so far.
IdSeq(ds) == [k \in 1..Len(ds) |-> ds[k].id]
AppendStep ==
    \/ created' = created + 1
    \/ \E r \in pushes : r.user_id # Me /\ PushDeliver(r)
C15_AppendOrder ==
    /\ [][/\ IsPrefix(IdSeq(localDrawings), IdSeq(localDrawings'))
          /\ AppendStep => Len(localDrawings') = Len(localDrawings) + 1
          /\ ~AppendStep => Len(localDrawings') = Len(localDrawings)
          /\ \A r \in pushes :
               (r.user_id # Me /\ PushDeliver(r)) =>
                 localDrawings'[Len(localDrawings')] = ToElement(r)
          /\ created' = created + 1 =>
               /\ localDrawings'[Len(localDrawings')].userId = Me
               /\ localDrawings'[Len(localDrawings')].timestamp = clock'
         ]_vars
    /\ [](Len(localDrawings)
            = created + (IF Includes(connectedUsers, Other) THEN 1 ELSE 0))
\* a stroke, the other session's stroke and a label were appended in this order
C15_Witness ==
    /\ Len(localDrawings) = 3
    /\ localDrawings[1].type = "draw" /\ localDrawings[1].userId = Me
    /\ localDrawings[2] = ToElement(RowB1)
    /\ localDrawings[3].type = "text" /\ localDrawings[3].userId = Me
\* C16: while a label is being edited (an edit is open with that label's id),
\* no full redraw, whether of a pan move, of a reset or of a poll answer, leaves
\* a text call for that label on the surface.  Refuted: the redraw of a poll
\* answer reads editingText and activeTextId of the mount render, so it draws
\* the label under edit.
RenderStep ==
    \/ \E rows \in DOMAIN fetchData : LoadOk(rows)
    \/ ResetView
    \/ \E p \in PanPoints \cup Clicks : PanMoveStep(p)
C16_EditedLabelSkipped ==
    [][(RenderStep /\ editingText /\ IsSome(activeTextId)) =>
         \A k \in 1..Len(localDrawings') :
            (localDrawings'[k].id = Val(activeTextId) /\ IsLabel(localDrawings'[k])) =>
              \A i \in 1..Len(canvas') :
                 ~ /\ canvas'[i].op = "text"
                   /\ canvas'[i].pts = <<Val(localDrawings'[k].data.position)>>
                   /\ canvas'[i].text = Val(localDrawings'[k].data.text)
      ]_vars
\* C17: after a full redraw (pan move, reset, poll answer) the polyline calls on
\* the surface are, in Store order, exactly one call for each stroke of the
\* Store with at least two points, with that stroke's points in order and its
\* own color and width; and no render path (full redraw, poll redraw,
\* incremental draw of a push) ever leaves a polyline call of fewer than two
\* points: the push of a one-point stroke draws nothing.
IsPolyline(call) == call.op = "stroke"
RECURSIVE ExpectedPolylines(_, _)
ExpectedPolylines(ds, off) ==
    IF ds = <<>> THEN <<>>
    ELSE (IF /\ Head(ds).type = "draw" /\ IsSome(Head(ds).data.points)
             /\ Len(Val(Head(ds).data.points)) >= 2
          THEN <<[op |-> "stroke", off |-> off, pts |-> Val(Head(ds).data.points),
                  text |-> <<>>, color |-> Val(Head(ds).data.color),
                  width |-> Val(Head(ds).data.width)]>>
          ELSE <<>>)
         \o ExpectedPolylines(Tail(ds), off)
C17_FullRedrawPolylines ==
    /\ [][RenderStep =>
            SelectSeq(canvas', IsPolyline) = ExpectedPolylines(localDrawings', offset')]_vars
    /\ [][\A r \in pushes :
            (PushDeliver(r) /\ r.user_id # Me /\ r.type = "draw"
                /\ Len(Val(r.data.points)) < 2) => canvas' = canvas]_vars
    /\ [](\A i \in 1..Len(canvas) : IsPolyline(canvas[i]) => Len(canvas[i].pts) >= 2)
\* the Store holds the one-point stroke before the two-point stroke, and the
\* redraw of a pan move has left exactly the polyline of the latter
C17_Witness ==
    /\ localDrawings = <<ToElement(RowDot), ToElement(RowB1)>>
    /\ offset = Pt(DefaultOffsetX + 20, DefaultOffsetY - 5)
    /\ canvas = <<[op |-> "stroke", off |-> offset, pts |-> <<Pt(0, 0), Pt(10, 10)>>,
                   text |-> <<>>, color |-> Red, width |-> 3]>>
\* C18: the known-users list never holds a duplicate; every author of a
\* successful load or poll answer and of an accepted push is in it afterwards;
\* an author in the list is never dropped again; and the active-users list
\* changes only in the push of another author and never holds the local
\* participant.  Refuted: a load answer (of loadDrawingsFromDatabase or of
\* loadAllUsers) replaces the list by the authors of that answer, which drops
\* an author whose push arrived after the select was served.
NoDuplicateUsers(us) == \A i, j \in 1..Len(us) : i # j => us[i] # us[j]
C18_KnownUsersGrowOnly ==
    [][/\ NoDuplicateUsers(allUsers')
       /\ ~Includes(connectedUsers', Me)
       /\ \A rows \in DOMAIN fetchData :
            LoadOk(rows) =>
              \A k \in 1..Len(rows) : Includes(allUsers', rows[k].user_id)
       /\ \A rows \in DOMAIN usersData :
            UsersOk(rows) =>
              \A k \in 1..Len(rows) : Includes(allUsers', rows[k].user_id)
       /\ \A r \in pushes :
            (PushDeliver(r) /\ r.user_id # Me) => Includes(allUsers', r.user_id)
       /\ connectedUsers' # connectedUsers =>
            \E r \in pushes : PushDeliver(r) /\ r.user_id # Me
       /\ \A i \in 1..Len(allUsers) : Includes(allUsers', allUsers[i])
      ]_vars
\* C19: in draw mode, a pointer-down in Idle starts a gesture whose buffer is
\* the world position of the pointer; every pointer-move of the gesture appends
\* the world position of the pointer to the buffer; and the pointer-up (or
\* pointer-leave) appends to the Store exactly one stroke of the local
\* participant whose points are the buffer (at least one point), submits its
\* insert, empties the buffer and leaves the session in Idle.
Idle == ~isDrawing /\ ~isPanning /\ ~editingText
WorldOf(p) == Pt(p.x - offset.x, p.y - offset.y)
C19_DrawGesture ==
    [][\A p \in PanPoints :
         /\ (Idle /\ mode = "draw" /\ \E t \in Now : MouseDown(p, t)) =>
              /\ isDrawing' /\ ~isPanning' /\ ~editingText'
              /\ currentPath' = <<WorldOf(p)>>
              /\ localDrawings' = localDrawings
         /\ (isDrawing /\ mode = "draw" /\ MouseMove(p)) =>
              /\ isDrawing'
              /\ currentPath' = Append(currentPath, WorldOf(p))
              /\ localDrawings' = localDrawings
         /\ (isDrawing /\ mode = "draw" /\ \E t \in Now : MouseUp(p, t)) =>
              /\ Len(currentPath) >= 1
              /\ Len(localDrawings') = Len(localDrawings) + 1
              /\ IsPrefix(localDrawings, localDrawings')
              /\ LET e == localDrawings'[Len(localDrawings')] IN
                   /\ e.type = "draw" /\ e.userId = Me
                   /\ e.data.points = Some(currentPath)
                   /\ BagSize(inserts') = BagSize(inserts) + 1
                   /\ \E r \in DOMAIN inserts' :
                         /\ ToElement(r) = e
                         /\ BagCount(inserts', r) = BagCount(inserts, r) + 1
              /\ currentPath' = <<>>
              /\ ~isDrawing' /\ ~isPanning' /\ ~editingText'
      ]_vars
\* the Store holds a stroke of a pointer-down and two pointer-moves and a
\* stroke of a gesture with no pointer-move
C19_Witness ==
    /\ Idle /\ currentPath = <<>>
    /\ Len(localDrawings) = 2
    /\ localDrawings[1].data.points = Some(<<Pt(10, 10), Pt(30, 5), Pt(10, 10)>>)
    /\ localDrawings[2].data.points = Some(<<Pt(30, 5)>>)
\* C20: a pointer-up in a pan gesture opens a text edit only if the pointer has
\* moved less than 5 pixels on each axis since the pointer-down of the gesture
\* (every gesture of SpecClick starts at PanPoint(0)).  Refuted: the pointer-up
\* is compared with the reference of the last pan move, so a drag released
\* where its last move ended counts as a click.
C20_ClickThreshold ==
    [][\A p \in PanPoints :
         (isPanning /\ mode = "pan" /\ ~editingText /\ editingText'
             /\ \E t \in Now : MouseUp(p, t)) =>
           /\ Abs(p.x - PanPoint(0).x) < 5
           /\ Abs(p.y - PanPoint(0).y) < 5
      ]_vars
\* C21: a click in pan mode that opens an edit puts the session into
\* EditingText with the id of a label of the Store whose box holds the click as
\* the active id, that label's position as the pending anchor and its text as
\* the overlay content, and changes neither the Store nor the remote table nor
\* the requests in flight.
C21_HitOpensEditOfLabel ==
    [][\A p \in HitClicks :
         (ClickStep(p) /\ editingText') =>
           /\ \E k \in 1..Len(localDrawings) :
                 /\ IsLabel(localDrawings[k])
                 /\ ClaimedBox(localDrawings[k], Pt(p.x - offset.x, p.y - offset.y))
                 /\ activeTextId' = Some(localDrawings[k].id)
                 /\ textPosition' = localDrawings[k].data.position
                 /\ textContent' = Val(localDrawings[k].data.text)
           /\ UNCHANGED <<localDrawings, remote, inserts, updates, canvas>>
      ]_vars
\* the click right of the box of label a has opened the edit of label b, off
\* the anchor of b, with the anchor and the text of b in the overlay
C21_Witness ==
    /\ localDrawings = <<ToElement(RowLabelB), ToElement(RowLabelA)>>
    /\ lastPanPoint = Pt(532, 510)
    /\ editingText /\ activeTextId = Some("1700000000002")
    /\ debugInfo.kind = "Editing text" /\ debugInfo.arg = <<"170000">>
    /\ textPosition = Some(Pt(20, 10)) /\ textContent = <<99>>
\* C22: the commit or discard that a mode switch during the edit of a new
\* label forces (the mode effect of the render after the switch) leaves the
\* session in Idle, with neither the draw flag nor the pan flag nor the edit
\* flag set, and with no anchor, content or active id.  Refuted: the effect
\* clears the overlay state only, so a gesture flag that was set when the edit
\* was opened is still set after the switch.
C22_SwitchLeavesIdle ==
    [][((\E t \in Now : ModeEffect(t)) /\ activeTextId = None) =>
         /\ Idle'
         /\ textPosition' = None /\ textContent' = <<>> /\ activeTextId' = None
      ]_vars
\* C23: the draw calls that the push of another author's element adds to the
\* surface are the draw calls a full redraw at the same moment issues for that
\* element: same offset, same points or text, same color and width, with the
\* current tool color and width where the element has none.  Refuted: the push
\* handler reads the color and the width of the mount render.
C23_FullAndIncrementalAgree ==
    [][\A r \in pushes :
         (PushDeliver(r) /\ r.user_id # Me) =>
           canvas' = canvas \o RenderStored(<<ToElement(r)>>, color, width,
                                            editingText, activeTextId, offset)
      ]_vars
\* C24: a full redraw (of a reset or of a poll answer) during a draw gesture
\* whose buffer holds at least two points leaves, as the last call on the
\* surface, the polyline of the buffer at the current offset with the current
\* tool color and width.  Refuted: the redraw of a poll answer draws the stored
\* elements only, so the stroke under the pointer disappears from the surface.
C24_InFlightPathRedrawn ==
    [][((ResetView \/ \E rows \in DOMAIN fetchData : LoadOk(rows))
          /\ isDrawing /\ Len(currentPath) >= 2) =>
         /\ Len(canvas') >= 1
         /\ canvas'[Len(canvas')] =
              DrawCall("stroke", offset', currentPath, <<>>, color, width)
      ]_vars
\* C25: the step that submits the update of a label (id, text, position) keeps
\* the size and the order of the Store and every element of another id; of an
\* element of that id it sets the text and the position and keeps the id, the
\* kind, the author, the timestamp, the color and the other payload fields;
\* and if no element has that id, the Store is unchanged.
UpdateSubmitted(u) == BagCount(updates', u) > BagCount(updates, u)
C25_UpdateTouchesOnlyTarget ==
    [][\A u \in DOMAIN updates' :
         UpdateSubmitted(u) =>
           /\ Len(localDrawings') = Len(localDrawings)
           /\ \A k \in 1..Len(localDrawings) :
                IF localDrawings[k].id = u.id
                THEN /\ localDrawings'[k].data.text = u.data.text
                     /\ localDrawings'[k].data.position = u.data.position
                     /\ localDrawings'[k].id = localDrawings[k].id
                     /\ localDrawings'[k].type = localDrawings[k].type
                     /\ localDrawings'[k].userId = localDrawings[k].userId
                     /\ localDrawings'[k].timestamp = localDrawings[k].timestamp
                     /\ localDrawings'[k].data.color = localDrawings[k].data.color
                     /\ localDrawings'[k].data.points = localDrawings[k].data.points
                     /\ localDrawings'[k].data.width = localDrawings[k].data.width
                ELSE localDrawings'[k] = localDrawings[k]
           /\ (~HasId(localDrawings, u.id)) => localDrawings' = localDrawings
      ]_vars
\* the update of label a was submitted after a poll answer had replaced the
\* Store by one without a: the Store holds label b as the answer gave it
C25_Witness ==
    /\ localDrawings = <<ToElement(RowLabelB)>>
    /\ \E u \in DOMAIN updates : u.id = "a"
\* C26: every render pass skips the elements whose payload lacks the fields of
\* their kind and draws all the others: after a full redraw (pan move, reset,
\* poll answer) every well-formed element of the Store has its call on the
\* surface, and the push of a malformed record draws nothing and leaves the
\* surface as it is.  Refuted: a record whose data is null raises a TypeError
\* in the pass, which ends it before the elements that follow.
WellFormed(e) ==
    /\ ~IsNull(e.data)
    /\ \/ e.type = "draw" /\ IsSome(e.data.points) /\ Len(Val(e.data.points)) >= 2
       \/ e.type = "text" /\ TruthyText(e.data.text) /\ IsSome(e.data.position)
Draws(call, e) ==
    IF e.type = "draw"
    THEN call.op = "stroke" /\ call.pts = Val(e.data.points)
    ELSE call.op = "text" /\ call.pts = <<Val(e.data.position)>>
                          /\ call.text = Val(e.data.text)
C26_MalformedSkipped ==
    [][/\ RenderStep =>
            \A k \in 1..Len(localDrawings') :
               WellFormed(localDrawings'[k]) =>
                 \E i \in 1..Len(canvas') : Draws(canvas'[i], localDrawings'[k])
       /\ \A r \in pushes :
            (PushDeliver(r) /\ r.user_id # Me /\ ~WellFormed(ToElement(r))) =>
              canvas' = canvas
      ]_vars
\* C27: an element of the Store whose row is in the remote table (a local
\* element whose insert was acknowledged, or a pushed element) is in the Store
\* after every step.  Refuted: the answer of a select that was served before
\* the row reached the table replaces the Store by the rows of that time.
C27_SyncedElementsStay ==
    [][\A k \in 1..Len(localDrawings) :
         HasId(remote, localDrawings[k].id) =>
           localDrawings[k].id \in Ids(localDrawings')
      ]_vars
\* C28: while the edit of an existing label is open, every step that is not a
\* commit by the user (Enter or loss of focus, a pointer-down on the canvas), a
\* cancel or a mode switch keeps it open with the same active id and submits no
\* update.  Refuted: the edit is opened in pan mode, so the mode effect of the
\* render that shows it commits it at once and submits an update of the
\* unchanged text.
UserEndsEdit ==
    \/ \E t \in Now : CommitText(t)
    \/ \E p \in HitClicks, t \in Now : MouseDown(p, t)
    \/ Escape
    \/ mode' # mode
C28_OpenedEditStaysOpen ==
    [][(editingText /\ IsSome(activeTextId) /\ ~UserEndsEdit) =>
         /\ editingText' /\ activeTextId' = activeTextId
         /\ updates' = updates
      ]_vars
\* C29: when the update of a label is acknowledged, the row of that label in
\* the remote table carries the text, the position and the color of the
\* label's element in the Store.  Refuted: the optimistic update keeps the
\* color of the element, the remote update writes the current tool color.
C29_LocalAndRemoteUpdateAgree ==
    [][\A u \in DOMAIN updates :
         UpdateOk(u) =>
           \A k \in 1..Len(localDrawings'), j \in 1..Len(remote') :
              (localDrawings'[k].id = u.id /\ remote'[j].id = u.id) =>
                /\ remote'[j].data.text = localDrawings'[k].data.text
                /\ remote'[j].data.position = localDrawings'[k].data.position
                /\ remote'[j].data.color = localDrawings'[k].data.color
      ]_vars
\* C30: after every step at most one of the draw flag, the pan flag and the
\* edit flag is set, and a pointer-up leaves neither the draw flag nor the pan
\* flag set.  Refuted: the pointer-up ends a pan gesture only in pan mode, so
\* after a mode switch between pointer-down and pointer-up the pan flag stays
\* set while the next gesture or edit starts.
FlagsSet ==
    (IF isDrawing THEN 1 ELSE 0) + (IF isPanning THEN 1 ELSE 0)
        + (IF editingText THEN 1 ELSE 0)
C30_ExclusiveStates ==
    [][/\ FlagsSet' <= 1
       /\ (\E t \in Now : MouseUp(PanPoint(0), t)) => (~isDrawing' /\ ~isPanning')
      ]_vars
====
